---- MODULE Spec2Model ----
(***************************************************************************)
(* Model of the agent backend (backend/main.py, backend/tool_executor.py,  *)
(* backend/memory_manager.py): the response interpretation cascade, the    *)
(* tool dispatcher, the file editor's path handling, the self-correction   *)
(* tracker and the control loop of stream_task with the task registry.     *)
(*                                                                         *)
(* Representation of Python values:                                        *)
(*   - a str is a sequence of tokens (words, path components, lines);      *)
(*     a path "/tmp/x/a.py" is <<"/", "tmp", "x", "a.py">>, a relative     *)
(*     path "../a.py" is <<"..", "a.py">>;                                 *)
(*   - a dict is a sequence of [k, v] pairs with distinct keys, in         *)
(*     insertion order (iteration order and json.dumps depend on it);      *)
(*   - a JSON value is a tagged record [t, d, s]: t is its type, d the     *)
(*     dict when t = "dict", s the string when t = "str".                  *)
(***************************************************************************)
EXTENDS Integers, Sequences, FiniteSets, TLC

(***************************************************************************)
(* Bounds of the explored inputs.                                          *)
(***************************************************************************)
MaxDepth == 3        \* directories in front of the file name of a path
MaxKeywords == 3     \* completion keywords occurring in a response text
MaxStored == 2       \* a run starts only while its scope stores fewer entries
MaxSaves == 3        \* save_memory calls of the worker threads
MaxCalls == 3        \* admitted generator calls beyond API_RATE_LIMIT
MaxTicks == 3        \* clock ticks, of half a rate window each
MaxArgs == 2         \* keys of an argument mapping given to _normalize_args
MaxSteps == 3        \* iterations whose history is serialized

(***************************************************************************)
(* Generic helpers for the representation.                                 *)
(***************************************************************************)
Range(s) == {s[k] : k \in DOMAIN s}

SeqsUpTo(S, n) == UNION {[1..m -> S] : m \in 0..n}

Last(s) == s[Len(s)]

IsPrefix(p, s) == Len(p) <= Len(s) /\ SubSeq(s, 1, Len(p)) = p

EmptyDict == <<>>

Keys(d) == {d[n].k : n \in DOMAIN d}

HasKey(d, key) == key \in Keys(d)

Get(d, key) == d[CHOOSE n \in DOMAIN d : d[n].k = key].v

\* d[key] = value of a Python dict: an existing key keeps its position
Put(d, key, value) ==
    IF HasKey(d, key)
    THEN [n \in DOMAIN d |-> IF d[n].k = key THEN [k |-> key, v |-> value] ELSE d[n]]
    ELSE Append(d, [k |-> key, v |-> value])

Dict1(k1, v1) == <<[k |-> k1, v |-> v1]>>

\* a Python value that is not a str where a str is expected (a JSON number)
NonStr == <<"<number>">>

JAbsent == [t |-> "absent", d |-> EmptyDict, s |-> <<>>]
JDict(d) == [t |-> "dict", d |-> d, s |-> <<>>]
JStr(s) == [t |-> "str", d |-> EmptyDict, s |-> s]
JOther(t) == [t |-> t, d |-> EmptyDict, s |-> <<>>]

(***************************************************************************)
(* tool_executor.py: workspaces and paths                                  *)
(***************************************************************************)
BASE_WORKSPACE == <<"/", "tmp", "agent_workspaces">>

\* directory names beginning with the characters "agent_workspaces" and
\* with the characters "agent_workspace" (str.startswith compares characters)
NamesStartingAgentWorkspaces == {"agent_workspaces"}
NamesStartingAgentWorkspace == {"agent_workspaces", "agent_workspace_x"}

get_task_workspace(task_id) == BASE_WORKSPACE \o <<task_id>>

DefaultWorkspace == BASE_WORKSPACE \o <<"default">>

isabs(path) == Len(path) >= 1 /\ path[1] = "/"

basename(path) == IF Len(path) >= 2 THEN <<Last(path)>> ELSE <<>>

\* os.path.join(a, b) for a relative b
join(a, b) == a \o b

\* path.startswith(BASE_WORKSPACE)
StartsWithBase(path) ==
    /\ Len(path) >= 3
    /\ SubSeq(path, 1, 2) = <<"/", "tmp">>
    /\ path[3] \in NamesStartingAgentWorkspaces

\* path.startswith("/tmp/agent_workspace")
StartsWithAgentWorkspace(path) ==
    /\ Len(path) >= 3
    /\ SubSeq(path, 1, 2) = <<"/", "tmp">>
    /\ path[3] \in NamesStartingAgentWorkspace

\* the path a file_editor call opens, before the operating system resolves it
file_editor_path(path, cwd) ==
    LET work_dir == IF cwd = <<>> THEN DefaultWorkspace ELSE cwd IN
    IF ~isabs(path) THEN join(work_dir, path)
    ELSE IF ~StartsWithBase(path) /\ ~StartsWithAgentWorkspace(path)
         THEN join(work_dir, basename(path))
         ELSE path

\* what the operating system opens for an absolute path: ".." components
\* are resolved against the components before them
RECURSIVE ResolveParts(_, _)
ResolveParts(parts, acc) ==
    IF parts = <<>> THEN acc
    ELSE IF Head(parts) = ".."
         THEN ResolveParts(Tail(parts),
                           IF acc = <<>> THEN acc ELSE SubSeq(acc, 1, Len(acc) - 1))
         ELSE ResolveParts(Tail(parts), Append(acc, Head(parts)))

realpath(path) == <<"/">> \o ResolveParts(Tail(path), <<>>)

Inside(target, workspace) == IsPrefix(workspace, target) /\ Len(target) > Len(workspace)

FileActions == {"read", "write", "append"}

\* file_editor(action, path, content, cwd): the observation kind and the
\* file the call opens ("target", <<>> when no file is opened)
file_editor(action, path, content, cwd) ==
    IF path = NonStr
    THEN [raises |-> "TypeError", target |-> <<>>, op |-> "none"]
    ELSE IF Len(action) = 1 /\ action[1] \in FileActions
         THEN [raises |-> "none", target |-> realpath(file_editor_path(path, cwd)), op |-> action[1]]
         ELSE [raises |-> "none", target |-> <<>>, op |-> "none"]

(***************************************************************************)
(* tool_executor.py: the capability set, argument aliases, dispatch        *)
(***************************************************************************)
AVAILABLE_TOOLS == <<"web_search", "terminal", "file_editor", "finish">>

ToolNames == Range(AVAILABLE_TOOLS)

\* str.lower() on the tokens that occur with capital letters in the inputs
lower(w) ==
    CASE w = "TERMINAL" -> "terminal"
      [] w = "Finish" -> "finish"
      [] w = "CMD" -> "cmd"
      [] w = "TUGAS SELESAI" -> "tugas selesai"
      [] w = "Task" -> "task"
      [] OTHER -> w

\* an alias table in which a canonical key of terminal is itself an alias
TOOL_ARG_MAP_CanonicalAliased(action) ==
    CASE action = "terminal" ->
           <<[k |-> "cmd", v |-> "command"], [k |-> "command", v |-> "cmd"]>>
      [] OTHER -> <<>>

TOOL_ARG_MAP(action) ==
    CASE action = "web_search" ->
           <<[k |-> "q", v |-> "query"], [k |-> "search", v |-> "query"],
             [k |-> "keyword", v |-> "query"], [k |-> "keywords", v |-> "query"],
             [k |-> "search_query", v |-> "query"]>>
      [] action = "terminal" ->
           <<[k |-> "cmd", v |-> "command"], [k |-> "shell", v |-> "command"],
             [k |-> "exec", v |-> "command"], [k |-> "run", v |-> "command"]>>
      [] action = "file_editor" ->
           <<[k |-> "file_path", v |-> "path"], [k |-> "filepath", v |-> "path"],
             [k |-> "filename", v |-> "path"], [k |-> "file", v |-> "path"],
             [k |-> "text", v |-> "content"], [k |-> "data", v |-> "content"],
             [k |-> "body", v |-> "content"], [k |-> "operation", v |-> "action"],
             [k |-> "mode", v |-> "action"], [k |-> "type", v |-> "action"]>>
      [] action = "finish" ->
           <<[k |-> "result", v |-> "answer"], [k |-> "response", v |-> "answer"],
             [k |-> "message", v |-> "answer"], [k |-> "output", v |-> "answer"],
             [k |-> "summary", v |-> "answer"]>>

\* the loop of _normalize_args over action_input.items()
RECURSIVE NormalizeItems(_, _, _)
NormalizeItems(alias_map, items, normalized) ==
    IF items = <<>> THEN normalized
    ELSE LET key == Head(items).k
             value == Head(items).v
             canonical == IF key = "cwd" THEN "cwd"
                          ELSE IF HasKey(alias_map, lower(key))
                               THEN Get(alias_map, lower(key))
                               ELSE key
         IN NormalizeItems(alias_map, Tail(items), Put(normalized, canonical, value))

\* _normalize_args on a dict
_normalize_args(action, action_input) ==
    IF HasKey(action_input, "raw") /\ Len(action_input) = 1
       /\ action \in {"web_search", "terminal", "finish"}
    THEN CASE action = "web_search" -> Dict1("query", Get(action_input, "raw"))
           [] action = "terminal" -> Dict1("command", Get(action_input, "raw"))
           [] action = "finish" -> Dict1("answer", Get(action_input, "raw"))
    ELSE IF action \notin ToolNames THEN action_input
         ELSE NormalizeItems(TOOL_ARG_MAP(action), action_input, EmptyDict)

\* the parameters of the tool functions and the ones without a default
ToolParams(action) ==
    CASE action = "web_search" -> {"query"}
      [] action = "terminal" -> {"command", "cwd"}
      [] action = "file_editor" -> {"action", "path", "content", "cwd"}
      [] action = "finish" -> {"answer"}

ToolRequired(action) ==
    CASE action = "web_search" -> {"query"}
      [] action = "terminal" -> {"command"}
      [] action = "file_editor" -> {"action", "path"}
      [] action = "finish" -> {"answer"}

\* tool_function(**kwargs) binds its keyword arguments
Binds(action, kwargs) ==
    ToolRequired(action) \subseteq Keys(kwargs) /\ Keys(kwargs) \subseteq ToolParams(action)

\* str(v)
str(v) == IF v = NonStr THEN <<"5">> ELSE v

NoCall == [tool |-> "none", kwargs |-> EmptyDict]

NoFile == [raises |-> "none", target |-> <<>>, op |-> "none"]

\* next(iter(values), default) with the keys in `skip` left out
FirstValue(d, skip, default) ==
    LET idx == {n \in DOMAIN d : d[n].k \notin skip} IN
    IF idx = {} THEN default
    ELSE d[CHOOSE n \in idx : \A m \in idx : n <= m].v

\* an injection that keeps a cwd the arguments already have
InjectWorkspace_KeepSupplied(action, normalized, task_workspace) ==
    IF task_workspace # <<>> /\ action \in {"terminal", "file_editor"}
       /\ ~HasKey(normalized, "cwd")
    THEN Put(normalized, "cwd", task_workspace)
    ELSE normalized

\* if task_workspace and action in ("terminal", "file_editor"):
\*     normalized_input["cwd"] = task_workspace
InjectWorkspace(action, normalized, task_workspace) ==
    IF task_workspace # <<>> /\ action \in {"terminal", "file_editor"}
    THEN Put(normalized, "cwd", task_workspace)
    ELSE normalized

\* execute_tool(action, action_input, task_workspace) for a canonical
\* action: what it raises, the kind of value it returns, the tool call it
\* makes and the file that call opens
execute_tool(action, action_input, task_workspace) ==
    IF action_input.t \in {"num", "null"}
    THEN [raised |-> "TypeError", returns |-> "nothing", call |-> NoCall, file |-> NoFile]
    ELSE IF action_input.t # "dict"
    THEN [raised |-> "AttributeError", returns |-> "nothing", call |-> NoCall, file |-> NoFile]
    ELSE
    LET normalized == _normalize_args(action, action_input.d)
        normalized_input == InjectWorkspace(action, normalized, task_workspace)
        arg(name, default) ==
            IF HasKey(normalized_input, name) THEN Get(normalized_input, name) ELSE default
        edit == file_editor(arg("action", <<>>), arg("path", <<>>),
                            arg("content", <<>>), arg("cwd", <<>>))
    IN
    IF Binds(action, normalized_input)
       /\ ~(action = "file_editor" /\ edit.raises = "TypeError")
    THEN [raised |-> "none",
          returns |-> IF action = "finish" /\ Get(normalized_input, "answer") = NonStr
                      THEN "number" ELSE "text",
          call |-> [tool |-> action, kwargs |-> normalized_input],
          file |-> IF action = "file_editor" THEN edit ELSE NoFile]
    ELSE \* except TypeError: the single-argument fallback
    CASE action = "web_search" ->
           [raised |-> "none", returns |-> "text",
            call |-> [tool |-> "web_search",
                      kwargs |-> Dict1("query", str(FirstValue(normalized_input, {}, <<>>)))],
            file |-> NoFile]
      [] action = "terminal" ->
           [raised |-> "none", returns |-> "text",
            call |-> [tool |-> "terminal",
                      kwargs |-> Put(Dict1("command", str(FirstValue(normalized_input, {"cwd"}, <<>>))),
                                     "cwd", task_workspace)],
            file |-> NoFile]
      [] action = "file_editor" ->
           [raised |-> "none", returns |-> "text", call |-> NoCall, file |-> NoFile]
      [] action = "finish" ->
           [raised |-> "none", returns |-> "text",
            call |-> [tool |-> "finish",
                      kwargs |-> Dict1("answer", str(FirstValue(normalized_input, {}, <<"Task completed.">>)))],
            file |-> NoFile]

(***************************************************************************)
(* main.py: the response text and the Text Extractor                       *)
(*                                                                         *)
(* A response text is a record of what the patterns of the interpreter     *)
(* see in it:                                                              *)
(*   kw     the completion keywords of the text, in text order;            *)
(*   json   the span from the first "{" to the last "}": kind "none" (no   *)
(*          such span), "valid" (json.loads accepts it), "trailing_comma"  *)
(*          (accepted once commas before "}" and "]" are dropped) or       *)
(*          "invalid", and the decoded object;                             *)
(*   blocks the fenced blocks in text order: language tag, the lines of    *)
(*          the body and the quoted path the path patterns find in the     *)
(*          500 characters in front of the block (<<>> if none);           *)
(*   shell  the shell-like lines of the text.                              *)
(***************************************************************************)
None == [thought |-> <<>>, action |-> "none", action_input |-> JAbsent]

ParsedAction(thought, action, action_input) ==
    [thought |-> thought, action |-> action, action_input |-> action_input]

BashLangs == {"bash", "sh", "shell", "console", "terminal", ""}

FileLangs == {"html", "css", "js", "javascript", "python", "py", "json", "tsx", "jsx",
              "ts", "php", "java", "c", "cpp", "go", "rust", "rb", "ruby"}

\* default file names in which a python block goes to script.py
ext_map_PythonScript(lang) ==
    CASE lang \in {"python", "py"} -> "script.py"
      [] OTHER -> "file.lang"

ext_map(lang) ==
    CASE lang = "html" -> "index.html" [] lang = "css" -> "style.css"
      [] lang \in {"js", "javascript"} -> "script.js"
      [] lang \in {"python", "py"} -> "main.py"
      [] lang = "json" -> "data.json" [] lang = "tsx" -> "App.tsx"
      [] lang = "jsx" -> "App.jsx" [] lang = "ts" -> "index.ts"
      [] lang = "php" -> "index.php" [] lang = "java" -> "Main.java"
      [] lang = "go" -> "main.go" [] lang = "rust" -> "main.rs"
      [] lang \in {"rb", "ruby"} -> "main.rb"
      [] lang = "c" -> "main.c" [] lang = "cpp" -> "main.cpp"
      [] OTHER -> "file.lang"

_extract_code_blocks(text) == text.blocks

_extract_shell_commands(text) == text.shell

\* the first loop of _extract_file_writes: the first block with a quoted path
RECURSIVE FirstQuoted(_)
FirstQuoted(code_blocks) ==
    IF code_blocks = <<>> THEN <<>>
    ELSE IF Head(code_blocks).quoted # <<>> THEN <<Head(code_blocks)>>
         ELSE FirstQuoted(Tail(code_blocks))

\* the second loop: the first block whose language has a default file name
RECURSIVE FirstFileLang(_)
FirstFileLang(code_blocks) ==
    IF code_blocks = <<>> THEN <<>>
    ELSE IF Head(code_blocks).lang \in FileLangs THEN <<Head(code_blocks)>>
         ELSE FirstFileLang(Tail(code_blocks))

\* _extract_file_writes: <<>> for None, else <<[path, content]>>
_extract_file_writes(code_blocks, workspace_dir) ==
    LET q == FirstQuoted(code_blocks)
        f == FirstFileLang(code_blocks)
    IN IF q # <<>>
       THEN <<[path |-> IF ~isabs(q[1].quoted) THEN join(workspace_dir, q[1].quoted)
                        ELSE q[1].quoted,
               content |-> q[1].lines]>>
       ELSE IF f # <<>>
            THEN <<[path |-> join(workspace_dir, <<ext_map(f[1].lang)>>),
                    content |-> f[1].lines]>>
            ELSE <<>>

(***************************************************************************)
(* main.py: interpret_response                                             *)
(***************************************************************************)
Lowered(words) == [n \in DOMAIN words |-> lower(words[n])]

\* words in which (tugas|task), (selesai|done|complete|finished),
\* (semua|all), (langkah|step), (selesai|done|complete) match
TaskWords == {"task", "tugas selesai"}
DoneWords == {"done", "tugas selesai"}
AllWords == {"all"}
StepWords == {"step"}

\* finish_patterns[0]: the position of the leftmost match, 0 if none
FinishMatch1(kw) ==
    LET hits == {n \in DOMAIN kw : lower(kw[n]) = "tugas selesai"} IN
    IF hits = {} THEN 0 ELSE CHOOSE n \in hits : \A m \in hits : n <= m

\* finish_patterns[1]: the position where the greedy match ends, 0 if none
FinishMatch2(kw) ==
    LET l == Lowered(kw)
        ends == {b \in DOMAIN l : l[b] \in DoneWords /\
                   \E a \in DOMAIN l : l[a] \in TaskWords /\
                                       (a < b \/ (a = b /\ l[a] = "tugas selesai"))}
    IN IF ends = {} THEN 0 ELSE CHOOSE b \in ends : \A m \in ends : m <= b

\* finish_patterns[2]: whether it matches (it has no capturing group)
FinishMatch3(kw) ==
    LET l == Lowered(kw) IN
    \E a, b, c \in DOMAIN l :
        a < b /\ b < c /\ l[a] \in AllWords /\ l[b] \in StepWords /\ l[c] \in DoneWords

HasFinishPhrase(text) ==
    FinishMatch1(text.kw) # 0 \/ FinishMatch2(text.kw) # 0 \/ FinishMatch3(text.kw)

\* match.group(1).strip() if it is not empty, else llm_text[:500]
FinishAnswer(kw, matchEnd) ==
    IF matchEnd < Len(kw) THEN SubSeq(kw, matchEnd + 1, Len(kw)) ELSE <<"llm_text[:500]">>

ThoughtExcerpt == <<"llm_text[:200]">>

\* the lines of a bash block that are neither blank nor comments
RECURSIVE CommandLines(_)
CommandLines(lines) ==
    IF lines = <<>> THEN <<>>
    ELSE IF Head(lines) \in {"", "#"} THEN CommandLines(Tail(lines))
         ELSE <<Head(lines)>> \o CommandLines(Tail(lines))

\* " && ".join(lines)
RECURSIVE JoinAnd(_)
JoinAnd(lines) ==
    IF Len(lines) <= 1 THEN lines
    ELSE <<Head(lines), "&&">> \o JoinAnd(Tail(lines))

Raised(exception) == [raised |-> exception, parsed |-> None]

Returned(parsed) == [raised |-> "none", parsed |-> parsed]

interpret_response(llm_text, user_prompt, step, workspace_dir) ==
    LET kw == llm_text.kw
        code_blocks == _extract_code_blocks(llm_text)
        shell_commands == _extract_shell_commands(llm_text)
        bash_blocks == SelectSeq(code_blocks, LAMBDA b : b.lang \in BashLangs)
        code_only_blocks == SelectSeq(code_blocks, LAMBDA b : b.lang \notin BashLangs)
        lines == IF bash_blocks = <<>> THEN <<>> ELSE CommandLines(bash_blocks[1].lines)
        file_write == _extract_file_writes(code_only_blocks, workspace_dir)
        WriteAction ==
            ParsedAction(ThoughtExcerpt, "file_editor",
                         JDict(<<[k |-> "action", v |-> <<"write">>],
                                 [k |-> "path", v |-> file_write[1].path],
                                 [k |-> "content", v |-> file_write[1].content]>>))
    IN
    IF FinishMatch1(kw) # 0
    THEN Returned(ParsedAction(<<"Tugas telah selesai">>, "finish",
                  JDict(Dict1("answer", FinishAnswer(kw, FinishMatch1(kw))))))
    ELSE IF FinishMatch2(kw) # 0
    THEN Returned(ParsedAction(<<"Tugas telah selesai">>, "finish",
                  JDict(Dict1("answer", FinishAnswer(kw, FinishMatch2(kw))))))
    ELSE IF FinishMatch3(kw)
    THEN Raised("IndexError")       \* match.group(1): no such group
    ELSE IF lines # <<>>
    THEN Returned(ParsedAction(ThoughtExcerpt, "terminal",
                  JDict(Dict1("command", IF Len(lines) <= 5 THEN JoinAnd(lines)
                                         ELSE <<lines[1]>>))))
    ELSE IF code_only_blocks # <<>> /\ step <= 2 /\ file_write # <<>>
    THEN Returned(WriteAction)
    ELSE IF shell_commands # <<>>
    THEN Returned(ParsedAction(ThoughtExcerpt, "terminal",
                  JDict(Dict1("command", <<shell_commands[1]>>))))
    ELSE IF code_only_blocks # <<>> /\ file_write # <<>>
    THEN Returned(WriteAction)
    ELSE IF user_prompt.search /\ step = 1
    THEN Returned(ParsedAction(<<"Mencari informasi tentang:", "user_prompt">>, "web_search",
                  JDict(Dict1("query", <<"user_prompt">>))))
    ELSE Returned(ParsedAction(<<"Menganalisis respons dan memberikan jawaban">>, "finish",
                  JDict(Dict1("answer", <<"llm_text">>))))

(***************************************************************************)
(* main.py: _try_parse_json_format and call_llm                            *)
(*                                                                         *)
(* The decoded JSON object is a record of the fields the code reads:       *)
(*   thought, args, action_input, input: JSON values ("absent" if the key  *)
(*   is missing); action: [t, name, args] with t "absent", "dict", "str"   *)
(*   (the string is name.s) or "other" (number, list, null).               *)
(***************************************************************************)
json_loads(kind) == kind = "valid"

\* re.sub(r',\s*}', '}', ..) and re.sub(r',\s*]', ']', ..)
DropTrailingCommas(kind) == IF kind = "trailing_comma" THEN "valid" ELSE kind

\* the loop "for tool_name in AVAILABLE_TOOLS: if tool_name in action_name"
ResolveToolName(name) ==
    LET l == Lowered(name)
        hits == {k \in DOMAIN AVAILABLE_TOOLS : AVAILABLE_TOOLS[k] \in Range(l)}
    IN IF hits = {} THEN "unresolved"
       ELSE AVAILABLE_TOOLS[CHOOSE k \in hits : \A m \in hits : k <= m]

_try_parse_json_format(output) ==
    LET kind == output.json.kind
        data == output.json.data
        thought == IF data.thought.t = "absent" THEN <<"Processing...">>
                   ELSE IF data.thought.t = "str" THEN data.thought.s ELSE NonStr
        action_data == data.action
        sibling == IF data.args.t # "absent" THEN data.args
                   ELSE IF data.action_input.t # "absent" THEN data.action_input
                   ELSE IF data.input.t # "absent" THEN data.input
                   ELSE JDict(EmptyDict)
        action_args == IF sibling.t = "str" THEN JDict(Dict1("raw", sibling.s)) ELSE sibling
    IN
    IF kind = "none" THEN Returned(None)
    ELSE IF ~json_loads(kind) /\ ~json_loads(DropTrailingCommas(kind)) THEN Returned(None)
    ELSE IF action_data.t = "absent" THEN Returned(None)
    ELSE IF action_data.t = "dict" /\ action_data.name.t # "absent"
    THEN IF action_data.name.t # "str"
         THEN Raised("AttributeError")      \* action_data["name"].strip()
         ELSE IF ResolveToolName(action_data.name.s) \in ToolNames
              THEN Returned(ParsedAction(thought, ResolveToolName(action_data.name.s),
                            IF action_data.args.t = "absent" THEN JDict(EmptyDict)
                            ELSE action_data.args))
              ELSE Returned(None)
    ELSE IF action_data.t = "str"
    THEN IF ResolveToolName(action_data.name.s) \in ToolNames
         THEN Returned(ParsedAction(thought, ResolveToolName(action_data.name.s), action_args))
         ELSE Returned(None)
    ELSE Returned(None)

\* the try block of call_llm after _call_api returned llm_text: the JSON
\* strategy first, interpret_response if it yields nothing
Interpret(llm_text, user_prompt, step, workspace_dir) ==
    LET json_parsed == _try_parse_json_format(llm_text) IN
    IF json_parsed.raised # "none" THEN json_parsed
    ELSE IF json_parsed.parsed # None THEN json_parsed
    ELSE interpret_response(llm_text, user_prompt, step, workspace_dir)

\* a str with its len()
Str(text, len) == [text |-> text, len |-> len]

\* str(e) of the exceptions _call_api and the interpretation raise
ExceptionText(exception) ==
    CASE exception = "RateLimit" ->
            Str(<<"API rate limit reached. Please wait a moment and try again.">>, 59)
      [] exception = "ReadTimeout" ->
            Str(<<"HTTPSConnectionPool(host='magma-api.biz.id', port=443): Read timed out. (read timeout=120)">>, 90)
      [] exception = "IndexError" -> Str(<<"no such group">>, 13)
      [] exception = "AttributeError" ->
            Str(<<"'int' object has no attribute 'strip'">>, 37)

\* call_llm: (parsed, raw_output); parsed is None when _call_api or the
\* interpretation raised (except Exception: return None, str(e))
call_llm(response, user_prompt, step, workspace_dir) ==
    IF response.fails
    THEN [parsed |-> None, raw_output |-> ExceptionText(response.error), error |-> "generator"]
    ELSE LET r == Interpret(response.text, user_prompt, step, workspace_dir) IN
         IF r.raised # "none"
         THEN [parsed |-> None, raw_output |-> ExceptionText(r.raised), error |-> r.raised]
         ELSE [parsed |-> r.parsed, raw_output |-> response.text, error |-> "none"]

(***************************************************************************)
(* main.py: the state of the server                                        *)
(***************************************************************************)
MAX_CONCURRENT_TASKS == 10
MAX_TASKS_PER_IP == 3
API_RATE_LIMIT == 20
API_RATE_WINDOW == 60
max_iterations == 20
max_retries_per_error == 3

\* the supply of task ids (uuid4 values) of the explored behaviours
TaskIds == {"t1", "t2", "t3", "t4"}

\* the clients (remote addresses) sending start_task requests
Clients == {"c1", "c2"}

TerminalStatuses == {"completed", "max_iterations", "error", "disconnected"}

\* a task record: status, prompt, whether created_at is more than
\* TASK_EXPIRY_SECONDS ago, and the client whose request created it
TaskRecord(status, prompt, client) ==
    [status |-> status, prompt |-> prompt, old |-> FALSE, client |-> client]

NoTask == TaskRecord("none", [search |-> FALSE], "none")

VARIABLES
    tasks,                \* the keys of the registry dict `tasks`
    task,                 \* the task records by id: status ("none": not created),
                          \* prompt, old (created_at is more than
                          \* TASK_EXPIRY_SECONDS ago); a record outlives its
                          \* registry entry while a coroutine refers to it
    cleanups,             \* task ids with a pending call_later(300, _deferred_cleanup)
    pc,                   \* stream_task coroutine: "idle", "llm" (top of the loop
                          \* body), "tool" (before execute_tool)
    task_id,              \* the id the coroutine was connected with
    i,                    \* loop index of range(max_iterations)
    retry_count,
    last_failed_command,  \* json.dumps of the failing arguments, JAbsent for None
    parsed,               \* the ParsedAction of the current iteration
    history_list,         \* the history entries of the running coroutine
    final_answer,         \* history: the final_answer event of the current (or
                          \* last) run
    call_error,           \* history: why the last call_llm of that run returned
                          \* None ("none": it has not)
    llm_calls,            \* history: call_llm calls of the running coroutine
    tool_calls,           \* history: execute_tool calls of the running coroutine
    finished,             \* history: the current (or last) run interpreted finish
    end_status,           \* history: task status when that run ended ("none": not ended)
    streak,               \* history: consecutive failing terminal iterations with
                          \* the signature streak_sig, counted anew after a give-up
    streak_sig,
    streak_base,          \* history: retry_count when the streak began
    attempt,              \* history: retry_attempt of the self_correction event of
                          \* the last tool iteration (0: no event)
    signal,               \* history: "retry", "giveup" or "none" for that event
    scenario,             \* "server": registry and loop, the tools report no
                          \* error marker; "loop": one task, every tool outcome;
                          \* "function": a function applied to a drawn input
    probe,                \* input of the function
    result,               \* its results
    memories,             \* memory_manager: the stored list of each scope (the
                          \* file <session_id>.json)
    inserted,             \* history: the entries saved to each scope, in the
                          \* order of the writes
    worker,               \* the worker threads running memory_manager calls
    _api_call_timestamps, \* main.py: times of the admitted generator calls
    now,                  \* time.time(), in seconds
    caller,               \* the worker threads running _call_api
    admitted              \* history: the times at which _check_api_rate_limit
                          \* returned True, in the order of the appends

registryVars == <<tasks, task, cleanups>>
loopVars == <<pc, task_id, i, retry_count, last_failed_command, parsed, history_list>>
historyVars == <<llm_calls, tool_calls, finished, end_status, final_answer, call_error>>
trackerVars == <<streak, streak_sig, streak_base, attempt, signal>>
functionVars == <<scenario, probe, result>>
memoryVars == <<memories, inserted, worker>>
rateVars == <<_api_call_timestamps, now, caller, admitted>>
storeVars == <<memoryVars, rateVars>>
vars == <<registryVars, loopVars, historyVars, trackerVars, functionVars, storeVars>>

NoProbe == [fn |-> "none"]

\* the final_answer event of a run: none sent yet, or its content and the
\* type of the event sent after it ("none": it is the last event)
NoAnswer == [sent |-> FALSE, content |-> <<>>, later |-> "none"]

FinalAnswer(content) == [sent |-> TRUE, content |-> content, later |-> "none"]

(***************************************************************************)
(* memory_manager.py: the memory store                                     *)
(*                                                                         *)
(* A text is "" when it is empty or blank, else a name; an entry keeps     *)
(* its text and category.                                                  *)
(***************************************************************************)
MAX_MEMORIES == 100

\* the worker threads of asyncio.to_thread
Workers == {"w1", "w2"}

\* session_id: a task's session (task_id[:12]) or "global"
Scopes == TaskIds \cup {"global"}

MemoryEntry(text, category) == [text |-> text, category |-> category]

NoEntry == MemoryEntry("", "general")

IdleWorker == [pc |-> "idle", session_id |-> "global", memories |-> <<>>, entry |-> NoEntry]

IdleCaller == [pc |-> "idle", now |-> 0, kept |-> <<>>, result |-> "none"]

\* memories[-n:]
LastN(mems, n) == IF Len(mems) > n THEN SubSeq(mems, Len(mems) - n + 1, Len(mems)) ELSE mems

\* not text or not text.strip()
Blank(text) == text = ""

_load_memories(session_id) == memories[session_id]

\* a cap that keeps the oldest entries
AppendCapped_KeepOldest(loaded, entry) ==
    IF Len(loaded) + 1 > MAX_MEMORIES
    THEN SubSeq(Append(loaded, entry), 1, MAX_MEMORIES)
    ELSE Append(loaded, entry)

\* memories.append(entry), then the cap
AppendCapped(loaded, entry) ==
    IF Len(loaded) + 1 > MAX_MEMORIES
    THEN LastN(Append(loaded, entry), MAX_MEMORIES)
    ELSE Append(loaded, entry)

\* save_memory run without another memory call in between, as the loop of
\* the one running coroutine awaits it
save_memory(text, category, session_id) ==
    IF Blank(text)
    THEN UNCHANGED <<memories, inserted>>
    ELSE /\ memories' = [memories EXCEPT ![session_id] =
                            AppendCapped(_load_memories(session_id), MemoryEntry(text, category))]
         /\ inserted' = [inserted EXCEPT ![session_id] = Append(@, MemoryEntry(text, category))]

save_task_result(session_id) == save_memory("Task:", "task_result", session_id)

save_search_result(session_id) == save_memory("Search", "search", session_id)

\* json.dumps(parsed.action_input): one text per value
json_dumps(action_input) == action_input

\* no control loop is running
InitRun ==
    /\ pc = "idle"
    /\ task_id = "t1"
    /\ i = 0
    /\ retry_count = 0
    /\ last_failed_command = JAbsent
    /\ parsed = None
    /\ history_list = <<>>
    /\ final_answer = NoAnswer
    /\ call_error = "none"
    /\ llm_calls = 0
    /\ tool_calls = 0
    /\ finished = FALSE
    /\ end_status = "none"
    /\ streak = 0
    /\ streak_sig = JAbsent
    /\ streak_base = 0
    /\ attempt = 0
    /\ signal = "none"

\* no task has been created
InitRegistry ==
    /\ tasks = {}
    /\ task = [t \in TaskIds |-> NoTask]
    /\ cleanups = {}

\* the memory store and the rate limiter when the process starts
InitMemoryStore ==
    /\ memories = [s \in Scopes |-> <<>>]
    /\ inserted = [s \in Scopes |-> <<>>]
    /\ worker = [w \in Workers |-> IdleWorker]

InitRateLimiter ==
    /\ _api_call_timestamps = <<>>
    /\ now = 0
    /\ caller = [w \in Workers |-> IdleCaller]
    /\ admitted = <<>>

InitStore ==
    /\ InitMemoryStore
    /\ InitRateLimiter

InitServer ==
    /\ InitStore
    /\ InitRegistry
    /\ InitRun

Init ==
    /\ InitServer
    /\ scenario = "server"
    /\ probe = NoProbe
    /\ result = NoProbe

(***************************************************************************)
(* main.py: task registry operations                                       *)
(***************************************************************************)
\* the ids _cleanup_expired_tasks removes
Expired == {t \in tasks : task[t].old /\ task[t].status \notin {"running"}}

\* the task ids and clients of the explored requests, by scenario: in
\* "admission" uuid4 yields the ids in the order t1, t2, t3, t4
IdOrder == <<"t1", "t2", "t3", "t4">>

NewIds ==
    IF scenario = "admission"
    THEN {IdOrder[k] : k \in {n \in 1..Len(IdOrder) :
                                 \A m \in 1..(n - 1) : task[IdOrder[m]].status # "none"}}
    ELSE {"t1", "t2"}

ActiveClients == IF scenario = "admission" THEN Clients ELSE {"c1"}

\* POST /api/v1/agent/start_task, sent by client
start_task(prompt, client) ==
    LET remaining == tasks \ Expired
        active_count == Cardinality({t \in remaining : task[t].status = "running"})
    IN
    /\ client \in ActiveClients
    /\ \E new \in NewIds :
          /\ task[new].status = "none"
          /\ IF active_count >= MAX_CONCURRENT_TASKS
             THEN /\ tasks' = remaining
                  /\ task' = task
             ELSE /\ tasks' = remaining \cup {new}
                  /\ task' = [task EXCEPT ![new] =
                                TaskRecord("pending", prompt, client)]
    /\ UNCHANGED <<cleanups, loopVars, historyVars, trackerVars, functionVars, storeVars>>

\* time passes: created_at of task t is now more than TASK_EXPIRY_SECONDS ago
Age(t) ==
    /\ task[t].status # "none"
    /\ ~task[t].old
    /\ task' = [task EXCEPT ![t].old = TRUE]
    /\ UNCHANGED <<tasks, cleanups, loopVars, historyVars, trackerVars, functionVars, storeVars>>

\* the call_later timer fires: _deferred_cleanup(task_id)
_deferred_cleanup(t) ==
    /\ t \in cleanups
    /\ cleanups' = cleanups \ {t}
    /\ tasks' = tasks \ {t}
    /\ UNCHANGED <<task, loopVars, historyVars, trackerVars, functionVars, storeVars>>

(***************************************************************************)
(* main.py: stream_task, the control loop                                  *)
(*                                                                         *)
(* One coroutine runs at a time in the explored behaviours; the registry   *)
(* operations interleave with it at its await points.                      *)
(***************************************************************************)
\* the generator failing, or returning one of these texts
NoJson ==
    [kind |-> "none",
     data |-> [thought |-> JAbsent,
               action |-> [t |-> "absent", name |-> JAbsent, args |-> JAbsent],
               args |-> JAbsent, action_input |-> JAbsent, input |-> JAbsent]]

JsonAction(kind, thought, name, args) ==
    [kind |-> kind,
     data |-> [thought |-> thought,
               action |-> [t |-> "dict", name |-> name, args |-> args],
               args |-> JAbsent, action_input |-> JAbsent, input |-> JAbsent]]

JsonBareAction(kind, name, args, action_input, input) ==
    [kind |-> kind,
     data |-> [thought |-> JAbsent,
               action |-> [t |-> "str", name |-> JStr(name), args |-> JAbsent],
               args |-> args, action_input |-> action_input, input |-> input]]

Block(lang, lines, quoted) == [lang |-> lang, lines |-> lines, quoted |-> quoted]

Text(kw, json, blocks, shell) == [kw |-> kw, json |-> json, blocks |-> blocks, shell |-> shell]

Succeeds(text) == [fails |-> FALSE, error |-> "none", text |-> text]

\* _check_api_rate_limit refuses the call
GeneratorFails == [fails |-> TRUE, error |-> "RateLimit", text |-> Text(<<>>, NoJson, <<>>, <<>>)]

\* requests.get(api_url, timeout=120) times out
GeneratorTimesOut == [fails |-> TRUE, error |-> "ReadTimeout", text |-> Text(<<>>, NoJson, <<>>, <<>>)]

LoopResponses ==
    {GeneratorFails, GeneratorTimesOut} \cup
    {Succeeds(t) : t \in {
        Text(<<"TUGAS SELESAI", "done">>, NoJson, <<>>, <<>>),
        Text(<<"all", "step", "done">>, NoJson, <<>>, <<>>),
        Text(<<>>, NoJson, <<Block("bash", <<"ls">>, <<>>)>>, <<>>),
        Text(<<>>, NoJson, <<Block("bash", <<"#", "make">>, <<>>)>>, <<>>),
        Text(<<>>, NoJson, <<Block("python", <<"print(1)">>, <<>>)>>, <<>>),
        Text(<<>>, NoJson, <<>>, <<>>),
        Text(<<>>, JsonAction("valid", JAbsent, JStr(<<"TERMINAL">>), JStr(<<"ls">>)), <<>>, <<>>),
        Text(<<>>, JsonAction("valid", JOther("num"), JStr(<<"terminal">>),
                              JDict(Dict1("command", <<"ls">>))), <<>>, <<>>),
        Text(<<>>, JsonAction("valid", JAbsent, JStr(<<"finish">>),
                              JDict(Dict1("answer", NonStr))), <<>>, <<>>),
        Text(<<>>, JsonAction("valid", JAbsent, JStr(<<"web_search">>),
                              JDict(Dict1("q", NonStr))), <<>>, <<>>)}}

\* the responses of the generator by scenario: no searches in "server"
Responses ==
    IF scenario = "loop" THEN LoopResponses
    ELSE {GeneratorFails} \cup
         {Succeeds(t) : t \in {
             Text(<<"TUGAS SELESAI", "done">>, NoJson, <<>>, <<>>),
             Text(<<"all", "step", "done">>, NoJson, <<>>, <<>>),
             Text(<<>>, NoJson, <<Block("bash", <<"ls">>, <<>>)>>, <<>>),
             Text(<<>>, JsonAction("valid", JAbsent, JStr(<<"finish">>),
                                   JDict(Dict1("answer", NonStr))), <<>>, <<>>)}}

Prompts == {[search |-> FALSE], [search |-> TRUE]}

\* the goals of the tasks start_task creates in the explored behaviours
StartPrompts == {[search |-> FALSE]}

\* whether the observation of a tool contains one of error_patterns
ToolErrors == IF scenario = "loop" THEN BOOLEAN ELSE {FALSE}

\* a finish test that compares with a name no tool has
IsFinish_WrongName(action) == action = "done"

\* if parsed.action == "finish"
IsFinish(action) == action = "finish"

\* an else branch that leaves the stored signature in place
ClearTracking_KeepSignature(count, last_failed) ==
    [retry_count |-> count, last_failed_command |-> last_failed]

\* the else branch of the retry tracking (no error marker, or another tool
\* than terminal): last_failed_command = None
ClearTracking(count, last_failed) ==
    [retry_count |-> count, last_failed_command |-> JAbsent]

\* retry tracking that keeps the counter when it gives up
RetryTracking_KeepCount(count, last_failed, signature) ==
    LET counted == count + 1
        is_same_error == (last_failed = signature)
        same_error_retries == IF is_same_error THEN counted ELSE 1
    IN IF same_error_retries <= max_retries_per_error
       THEN [retry_count |-> counted, last_failed_command |-> signature,
             attempt |-> same_error_retries, signal |-> "retry"]
       ELSE [retry_count |-> counted, last_failed_command |-> JAbsent,
             attempt |-> same_error_retries, signal |-> "giveup"]

\* the retry tracking of a failing terminal iteration (has_error and
\* parsed.action == "terminal"): the new counter and stored signature and the
\* self_correction event
RetryTracking(count, last_failed, signature) ==
    LET counted == count + 1
        is_same_error == (last_failed = signature)
        same_error_retries == IF is_same_error THEN counted ELSE 1
    IN IF same_error_retries <= max_retries_per_error
       THEN [retry_count |-> counted, last_failed_command |-> signature,
             attempt |-> same_error_retries, signal |-> "retry"]
       ELSE [retry_count |-> 0, last_failed_command |-> JAbsent,
             attempt |-> same_error_retries, signal |-> "giveup"]

\* a failure content that never shows the text of the failure
FailureContent_Generic(raw_output) ==
    <<"I encountered an issue processing this request. Please try again.">>

\* raw_output if raw_output and len(raw_output) > 10 else "I encountered ..."
FailureContent(raw_output) ==
    IF raw_output.text # <<>> /\ raw_output.len > 10
    THEN raw_output.text
    ELSE <<"I encountered an issue processing this request. Please try again.">>

\* a history entry numbered from 0
HistoryEntry_FromZero(index) == [step |-> index]

\* history_entry = {"step": i + 1, ...}; of an entry the model keeps the
\* step, the other keys are not read again by the loop
HistoryEntry(index) == [step |-> index + 1]

\* the coroutine leaves the loop: except clauses and the finally block
Leave(status) ==
    /\ task' = [task EXCEPT ![task_id].status = status]
    /\ cleanups' = IF status \in TerminalStatuses THEN cleanups \cup {task_id} ELSE cleanups
    /\ end_status' = status
    /\ llm_calls' = 0
    /\ tool_calls' = 0
    /\ pc' = "idle"
    /\ i' = 0
    /\ retry_count' = 0
    /\ last_failed_command' = JAbsent
    /\ parsed' = None
    /\ history_list' = <<>>
    /\ streak' = 0
    /\ streak_sig' = JAbsent
    /\ streak_base' = 0
    /\ attempt' = 0
    /\ signal' = "none"
    /\ UNCHANGED <<tasks, task_id, functionVars, worker, rateVars>>

\* ... without a memory call on the way out
EndRun(status) ==
    /\ Leave(status)
    /\ UNCHANGED <<memories, inserted>>

\* ... on an exception: no final_answer event is sent any more
Abort(status) ==
    /\ EndRun(status)
    /\ UNCHANGED <<final_answer, call_error>>

\* a client connects to /ws/agent/stream/{task_id}
stream_task(tid) ==
    /\ pc = "idle"
    /\ tid \in tasks => Len(memories[tid]) < MaxStored
    /\ IF tid \notin tasks
       THEN UNCHANGED vars      \* "Task not found."
       ELSE /\ task' = [task EXCEPT ![tid].status = "running"]
            /\ task_id' = tid
            /\ pc' = "llm"
            /\ i' = 0
            /\ retry_count' = 0
            /\ last_failed_command' = JAbsent
            /\ parsed' = None
            /\ history_list' = <<>>
            /\ final_answer' = NoAnswer
            /\ call_error' = "none"
            /\ llm_calls' = 0
            /\ tool_calls' = 0
            /\ finished' = FALSE
            /\ end_status' = "none"
            /\ UNCHANGED <<tasks, cleanups, trackerVars, functionVars, storeVars>>

\* loop body up to the dispatch: call_llm, the thought event, the parsed is
\* None branch and the finish branch
LoopCallLLM(response) ==
    LET r == call_llm(response, task[task_id].prompt, i + 1, get_task_workspace(task_id))
        input == r.parsed.action_input
        answer == IF input.t # "dict" THEN NonStr
                  ELSE IF HasKey(input.d, "answer") THEN Get(input.d, "answer")
                  ELSE IF HasKey(input.d, "raw") THEN Get(input.d, "raw")
                  ELSE <<"Task completed.">>
    IN
    /\ pc = "llm"
    /\ i < max_iterations
    /\ response \in Responses
    \* the explored runs search only while the scope stores few entries
    /\ (r.parsed # None /\ r.parsed.action = "web_search") =>
            Len(memories[task_id]) < MaxStored
    /\ IF r.parsed = None
       THEN /\ EndRun(task[task_id].status)           \* final_answer, break
            /\ final_answer' = FinalAnswer(FailureContent(r.raw_output))
            /\ call_error' = r.error
            /\ finished' = finished
       ELSE IF r.parsed.thought = NonStr
       THEN /\ Abort("error")                         \* parsed.thought[:500]
            /\ finished' = (finished \/ r.parsed.action = "finish")
       ELSE IF IsFinish(r.parsed.action)
       THEN /\ IF answer = NonStr
               THEN EndRun("error")                   \* answer[:500]
               ELSE /\ Leave("completed")
                    /\ save_task_result(task_id)
            \* the except clause sends an error event after the final_answer
            /\ final_answer' = IF answer = NonStr
                               THEN [FinalAnswer(answer) EXCEPT !.later = "error"]
                               ELSE FinalAnswer(answer)
            /\ call_error' = call_error
            /\ finished' = TRUE
       ELSE /\ pc' = "tool"
            /\ parsed' = r.parsed
            /\ finished' = (finished \/ r.parsed.action = "finish")
            /\ llm_calls' = llm_calls + 1
            /\ tool_calls' = tool_calls
            /\ UNCHANGED <<registryVars, task_id, i, retry_count, last_failed_command,
                           history_list, end_status, final_answer, call_error,
                           trackerVars, functionVars, storeVars>>

\* the rest of the loop body: execute_tool, retry tracking, memory, history
LoopExecuteTool(has_error) ==
    LET r == execute_tool(parsed.action, parsed.action_input, get_task_workspace(task_id))
        signature == json_dumps(parsed.action_input)
        tracked == RetryTracking(retry_count, last_failed_command, signature)
        cleared == ClearTracking(retry_count, last_failed_command)
        query == IF HasKey(parsed.action_input.d, "query") THEN Get(parsed.action_input.d, "query")
                 ELSE IF HasKey(parsed.action_input.d, "raw") THEN Get(parsed.action_input.d, "raw")
                 ELSE <<>>
    IN
    /\ pc = "tool"
    /\ has_error \in ToolErrors
    /\ finished' = finished
    /\ UNCHANGED <<final_answer, call_error>>
    /\ IF r.raised # "none"
       THEN EndRun("error")
       ELSE IF parsed.action = "web_search" /\ query = NonStr
       THEN EndRun("error")                           \* save_search_result: query[:100]
       ELSE /\ IF has_error /\ parsed.action = "terminal"
               THEN /\ retry_count' = tracked.retry_count
                    /\ last_failed_command' = tracked.last_failed_command
                    /\ attempt' = tracked.attempt
                    /\ signal' = tracked.signal
                    /\ streak' = IF signature = streak_sig THEN streak + 1 ELSE 1
                    /\ streak_base' = IF signature = streak_sig THEN streak_base ELSE retry_count
                    /\ streak_sig' = IF tracked.signal = "giveup" THEN JAbsent ELSE signature
               ELSE /\ retry_count' = cleared.retry_count
                    /\ last_failed_command' = cleared.last_failed_command
                    /\ attempt' = 0
                    /\ signal' = "none"
                    /\ streak' = 0
                    /\ streak_base' = 0
                    /\ streak_sig' = JAbsent
            /\ i' = i + 1
            /\ pc' = "llm"
            /\ parsed' = None
            /\ history_list' = Append(history_list, HistoryEntry(i))
            /\ tool_calls' = tool_calls + 1
            /\ llm_calls' = llm_calls
            /\ IF parsed.action = "web_search"
               THEN save_search_result(task_id)
               ELSE UNCHANGED <<memories, inserted>>
            /\ UNCHANGED <<registryVars, task_id, end_status, functionVars, worker, rateVars>>

\* the else clause of the for loop: the budget is used up
LoopExhausted ==
    /\ pc = "llm"
    /\ i = max_iterations
    /\ EndRun("max_iterations")
    /\ final_answer' = FinalAnswer(<<"Maximum iterations reached.">>)
    /\ call_error' = call_error
    /\ finished' = finished

\* a send_json or await raises WebSocketDisconnect
Disconnect ==
    /\ pc \in {"llm", "tool"}
    /\ Abort("disconnected")
    /\ finished' = finished

\* a send_json or await raises another exception
LoopException ==
    /\ pc \in {"llm", "tool"}
    /\ Abort("error")
    /\ finished' = finished

NextLoop ==
    \/ \E t \in TaskIds : stream_task(t)
    \/ \E response \in LoopResponses : LoopCallLLM(response)
    \/ \E has_error \in BOOLEAN : LoopExecuteTool(has_error)
    \/ LoopExhausted
    \/ Disconnect
    \/ LoopException

Next ==
    \/ \E prompt \in StartPrompts, client \in Clients : start_task(prompt, client)
    \/ \E t \in TaskIds : Age(t)
    \/ \E t \in TaskIds : _deferred_cleanup(t)
    \/ NextLoop

\* the server from its start
Spec == Init /\ [][Next]_vars

InitAdmission ==
    /\ InitServer
    /\ scenario = "admission"
    /\ probe = NoProbe
    /\ result = NoProbe

NextAdmission ==
    \/ \E prompt \in StartPrompts, client \in Clients : start_task(prompt, client)
    \/ \E t \in TaskIds : stream_task(t)
    \/ Disconnect
    \/ \E t \in TaskIds : _deferred_cleanup(t)

\* requests of two clients for up to four tasks; the clients connect and
\* disconnect before the generator answers
SpecAdmission == InitAdmission /\ [][NextAdmission]_vars

\* one created task and the connections to it, with every tool outcome
InitLoop ==
    /\ \E prompt \in Prompts :
          task = [t \in TaskIds |->
                    IF t = "t1" THEN TaskRecord("pending", prompt, "c1")
                    ELSE NoTask]
    /\ InitStore
    /\ tasks = {"t1"}
    /\ cleanups = {}
    /\ InitRun
    /\ scenario = "loop"
    /\ probe = NoProbe
    /\ result = NoProbe

SpecLoop == InitLoop /\ [][NextLoop]_vars

(***************************************************************************)
(* The interpreter and the dispatcher applied to drawn inputs              *)
(***************************************************************************)
Keywords == {"TUGAS SELESAI", "task", "done", "all", "step"}

KeywordSeqs == SeqsUpTo(Keywords, MaxKeywords)

FewKeywordSeqs == {<<>>, <<"TUGAS SELESAI">>, <<"task", "done", "step">>, <<"all", "step", "done">>}

ActionNames ==
    {JAbsent, JOther("num"), JStr(<<"TERMINAL">>), JStr(<<"Use", "terminal", "tool">>),
     JStr(<<"write">>), JStr(<<"file_editor">>), JStr(<<"Finish">>), JStr(<<"web_search">>),
     JStr(<<"finish", "terminal">>)}

ArgValues ==
    {JAbsent, JStr(<<"ls">>), JOther("list"), JOther("num"), JOther("null"),
     JDict(EmptyDict),
     JDict(Dict1("command", <<"ls">>)),
     JDict(Dict1("CMD", <<"ls">>)),
     JDict(Dict1("raw", <<"ls">>)),
     JDict(<<[k |-> "command", v |-> <<"ls">>], [k |-> "cwd", v |-> <<"/", "etc">>]>>),
     JDict(<<[k |-> "action", v |-> <<"write">>], [k |-> "path", v |-> <<"a.py">>],
             [k |-> "content", v |-> <<"print(1)">>]>>),
     JDict(<<[k |-> "mode", v |-> <<"read">>], [k |-> "file", v |-> <<"..", "t2", "a.py">>]>>),
     JDict(Dict1("answer", <<"ok">>)),
     JDict(Dict1("answer", NonStr)),
     JDict(Dict1("query", <<"x">>))}

JsonSpans ==
    {NoJson, [NoJson EXCEPT !.kind = "invalid"], [NoJson EXCEPT !.kind = "valid"]}
    \cup {JsonAction("valid", JAbsent, name, args) : name \in ActionNames, args \in ArgValues}
    \cup {JsonAction("trailing_comma", JStr(<<"thinking">>), name, args) :
            name \in ActionNames, args \in ArgValues}
    \cup {JsonAction("valid", JOther("num"), JStr(<<"TERMINAL">>), JDict(Dict1("command", <<"ls">>)))}
    \cup {JsonBareAction("valid", name, sib[1], sib[2], sib[3]) :
            name \in {<<"terminal">>, <<"write">>, <<"Finish">>},
            sib \in {<<JAbsent, JAbsent, JAbsent>>,
                     <<JStr(<<"ls">>), JAbsent, JAbsent>>,
                     <<JAbsent, JStr(<<"ls">>), JAbsent>>,
                     <<JAbsent, JAbsent, JOther("list")>>,
                     <<JDict(Dict1("command", <<"ls">>)), JStr(<<"make">>), JAbsent>>}}

BlockSeqs ==
    {<<>>,
     <<Block("bash", <<"ls">>, <<>>)>>,
     <<Block("", <<"#", "ls", "", "make">>, <<>>)>>,
     <<Block("sh", <<"#", "">>, <<>>)>>,
     <<Block("python", <<"print(1)">>, <<>>)>>,
     <<Block("python", <<"print(1)">>, <<"a.py">>)>>,
     <<Block("python", <<"print(1)">>, <<"..", "t2", "a.py">>)>>,
     <<Block("python", <<"print(1)">>, <<"/", "etc", "a.py">>)>>,
     <<Block("text", <<"hello">>, <<>>)>>,
     <<Block("text", <<"hello">>, <<>>), Block("json", <<"{}">>, <<>>)>>,
     <<Block("python", <<"print(1)">>, <<>>), Block("bash", <<"make">>, <<>>)>>}

ShellLines == {<<>>, <<"ls", "make">>}

\* the text
\*     Thought: I will write the file
\*     Action: file_editor
\*     Action Input: {"action": "write", "path": "a.py", "content": "print(1)",}
\* as the patterns see it: no pattern reads the Thought, Action and Action
\* Input lines; the span from "{" to "}" decodes, once the trailing comma is
\* dropped, to an object whose key "action" is the string "write"
ReActWriteText ==
    Text(<<>>, JsonBareAction("trailing_comma", <<"write">>, JAbsent, JAbsent, JAbsent),
         <<>>, <<>>)

\* a JSON action object wrapped in a fenced json block: the JSON strategy
\* sees the object, _extract_code_blocks the block
FencedJson(json) == Text(<<>>, json, <<Block("json", <<"{..}">>, <<>>)>>, <<>>)

FencedJsonTexts ==
    {FencedJson(JsonAction("valid", JAbsent, name, args)) :
        name \in ActionNames, args \in ArgValues}

Texts ==
    {Text(kw, json, <<>>, <<>>) : kw \in FewKeywordSeqs, json \in JsonSpans}
    \cup {ReActWriteText}
    \cup FencedJsonTexts
    \cup {Text(kw, NoJson, blocks, shell) :
            kw \in KeywordSeqs, blocks \in BlockSeqs, shell \in ShellLines}
    \cup {Text(<<>>, json, blocks, <<>>) :
            json \in {[NoJson EXCEPT !.kind = "invalid"],
                      JsonAction("valid", JAbsent, JStr(<<"write">>), JAbsent),
                      JsonAction("valid", JAbsent, JStr(<<"TERMINAL">>),
                                 JDict(Dict1("command", <<"ls">>)))},
            blocks \in BlockSeqs}

Steps == {1, 2, 3}

NoToolResult == [raised |-> "none", returns |-> "nothing", call |-> NoCall, file |-> NoFile]

InitInterp ==
    /\ InitServer
    /\ scenario = "function"
    /\ probe \in {[fn |-> "call_llm", text |-> text, user_prompt |-> prompt,
                   step |-> step, task_id |-> "t1"] :
                     text \in Texts, prompt \in Prompts, step \in Steps}
    /\ result = [stage |-> "input", interp |-> Returned(None), tool |-> NoToolResult]

\* the interpretation call_llm runs on the text the generator returned
InterpretText ==
    /\ result.stage = "input"
    /\ probe.fn = "call_llm"
    /\ result' = [result EXCEPT
                    !.stage = "interpreted",
                    !.interp = Interpret(probe.text, probe.user_prompt, probe.step,
                                         get_task_workspace(probe.task_id))]
    /\ UNCHANGED <<registryVars, loopVars, historyVars, trackerVars, scenario, probe, storeVars>>

\* execute_tool on the ParsedAction the interpretation produced
DispatchParsed ==
    /\ result.stage = "interpreted"
    /\ result.interp.raised = "none"
    /\ result' = [result EXCEPT
                    !.stage = "dispatched",
                    !.tool = execute_tool(result.interp.parsed.action,
                                          result.interp.parsed.action_input,
                                          get_task_workspace(probe.task_id))]
    /\ UNCHANGED <<registryVars, loopVars, historyVars, trackerVars, scenario, probe, storeVars>>

NextInterp == InterpretText \/ DispatchParsed

SpecInterp == InitInterp /\ [][NextInterp]_vars

(***************************************************************************)
(* file_editor actions dispatched with drawn paths                         *)
(***************************************************************************)
DirNames == {"..", "tmp", "agent_workspaces", "agent_workspace_x", "t1", "t2", "etc"}

FileNames == {"a.py"}

\* relative and absolute paths of a file with up to MaxDepth directories
Paths ==
    {root \o dirs \o <<file>> :
        root \in {<<>>, <<"/">>}, dirs \in SeqsUpTo(DirNames, MaxDepth), file \in FileNames}

InitFile ==
    /\ InitServer
    /\ scenario = "function"
    /\ probe \in {[fn |-> "file_editor", task_id |-> t, action |-> action, path |-> path] :
                     t \in {"t1", "t2"}, action \in FileActions \cup {"delete"}, path \in Paths}
    /\ result = [stage |-> "input", interp |-> Returned(None), tool |-> NoToolResult]

\* the loop dispatches a file_editor action of the task probe.task_id
DispatchFileEditor ==
    /\ result.stage = "input"
    /\ probe.fn = "file_editor"
    /\ result' = [result EXCEPT
                    !.stage = "dispatched",
                    !.tool = execute_tool("file_editor",
                                 JDict(<<[k |-> "action", v |-> <<probe.action>>],
                                         [k |-> "path", v |-> probe.path],
                                         [k |-> "content", v |-> <<"print(1)">>]>>),
                                 get_task_workspace(probe.task_id))]
    /\ UNCHANGED <<registryVars, loopVars, historyVars, trackerVars, scenario, probe, storeVars>>

NextFile == DispatchFileEditor

SpecFile == InitFile /\ [][NextFile]_vars

(***************************************************************************)
(* The serialized history: history_lines and history_str                   *)
(*                                                                         *)
(* Here a str is the sequence of its lines (a str with n newlines has      *)
(* n + 1 lines) and a line is a sequence of tokens.                        *)
(***************************************************************************)
\* f"Step {n}:"
StepLabel(n) ==
    CASE n = 1 -> "Step 1:" [] n = 2 -> "Step 2:" [] n = 3 -> "Step 3:"
      [] n = 4 -> "Step 4:" [] OTHER -> "Step 5:"

Line(tokens) == <<tokens>>

\* f"{prefix}{text}": the prefix goes in front of the first line of the text
Prefixed(prefix, text) == <<(<<prefix>> \o Head(text))>> \o Tail(text)

\* the history_lines.append calls of one iteration
HistoryLines(index, thought, action, tool_output, has_error) ==
    <<Line(<<StepLabel(index + 1)>>),
      Prefixed("  Thought: ", thought),
      Line(<<"  Action: ", action>>),
      Line(<<"  Action Input: ", "json.dumps(parsed.action_input)">>),
      Prefixed("  Result: ", tool_output)>>
    \o (IF has_error
        THEN <<Line(<<"  STATUS: ERROR - perlu diperbaiki di langkah berikutnya">>)>>
        ELSE <<>>)
    \o <<Line(<<>>)>>

\* "\n".join(history_lines): the lines of the joined text
RECURSIVE JoinLines(_)
JoinLines(strs) ==
    IF strs = <<>> THEN <<>> ELSE Head(strs) \o JoinLines(Tail(strs))

\* parsed.thought[:200]: a thought of interpret_response (newlines already
\* replaced) and thoughts of the JSON strategy, taken as the generator wrote
\* them
Thoughts ==
    {Line(<<"llm_text[:200]">>),
     Line(<<"Plan:", "Step 1:", "list the files">>),
     <<<<"Plan:">>, <<"Step 1:">>, <<"list the files">>>>}

\* tool_output[:500]: terminal observations for the commands true, ls and
\* echo "Step 2:"
ToolOutputs ==
    {Line(<<"(command executed successfully, no output)">>),
     <<<<"STDOUT:">>, <<"a.py">>, <<>>>>,
     <<<<"STDOUT:">>, <<"Step 2:">>, <<>>>>}

InitHistory ==
    /\ InitServer
    /\ scenario = "function"
    /\ probe = [fn |-> "history_str"]
    /\ result = [i |-> 0, history_lines |-> <<>>]

\* the end of one loop iteration: the lines of the step are appended
AppendHistory(thought, tool_output, has_error) ==
    /\ probe.fn = "history_str"
    /\ result.i < MaxSteps
    /\ result' = [i |-> result.i + 1,
                  history_lines |-> result.history_lines \o
                      HistoryLines(result.i, thought, "terminal", tool_output, has_error)]
    /\ UNCHANGED <<registryVars, loopVars, historyVars, trackerVars, scenario, probe, storeVars>>

NextHistory ==
    \E thought \in Thoughts, tool_output \in ToolOutputs, has_error \in BOOLEAN :
        AppendHistory(thought, tool_output, has_error)

SpecHistory == InitHistory /\ [][NextHistory]_vars

(***************************************************************************)
(* _normalize_args applied to drawn argument mappings, once and again      *)
(***************************************************************************)
ArgKeys ==
    {"command", "cwd", "cmd", "CMD", "raw", "path", "file", "type", "action",
     "query", "q", "answer", "output", "x"}

ArgTexts == {<<"ls">>, <<"make">>}

\* the dicts of up to MaxArgs items
ArgDicts ==
    {d \in SeqsUpTo([k : ArgKeys, v : ArgTexts], MaxArgs) :
        \A m, n \in DOMAIN d : d[m].k = d[n].k => m = n}

InitNormalize ==
    /\ InitServer
    /\ scenario = "function"
    /\ probe \in {[fn |-> "_normalize_args", action |-> action, action_input |-> d] :
                     action \in ToolNames \cup {"browser"}, d \in ArgDicts}
    /\ result = [stage |-> "input", once |-> EmptyDict, again |-> EmptyDict]

\* normalized_input = _normalize_args(action, action_input)
NormalizeOnce ==
    /\ result.stage = "input"
    /\ probe.fn = "_normalize_args"
    /\ result' = [result EXCEPT
                    !.stage = "once",
                    !.once = _normalize_args(probe.action, probe.action_input)]
    /\ UNCHANGED <<registryVars, loopVars, historyVars, trackerVars, scenario, probe, storeVars>>

\* _normalize_args on the mapping it returned
NormalizeAgain ==
    /\ result.stage = "once"
    /\ probe.fn = "_normalize_args"
    /\ result' = [result EXCEPT
                    !.stage = "again",
                    !.again = _normalize_args(probe.action, result.once)]
    /\ UNCHANGED <<registryVars, loopVars, historyVars, trackerVars, scenario, probe, storeVars>>

NextNormalize == NormalizeOnce \/ NormalizeAgain

SpecNormalize == InitNormalize /\ [][NextNormalize]_vars

(***************************************************************************)
(* execute_tool applied to drawn argument mappings                         *)
(***************************************************************************)
InitDispatch ==
    /\ InitServer
    /\ scenario = "function"
    /\ probe \in {[fn |-> "execute_tool", action |-> action, action_input |-> d,
                   task_id |-> "t1"] :
                     action \in ToolNames, d \in ArgDicts}
    /\ result = [stage |-> "input", tool |-> NoToolResult]

\* tool_output = execute_tool(parsed.action, parsed.action_input, workspace_dir)
DispatchArgs ==
    /\ result.stage = "input"
    /\ probe.fn = "execute_tool"
    /\ result' = [stage |-> "dispatched",
                  tool |-> execute_tool(probe.action, JDict(probe.action_input),
                                        get_task_workspace(probe.task_id))]
    /\ UNCHANGED <<registryVars, loopVars, historyVars, trackerVars, scenario, probe, storeVars>>

NextDispatch == DispatchArgs

SpecDispatch == InitDispatch /\ [][NextDispatch]_vars

(***************************************************************************)
(* memory_manager calls running in worker threads                          *)
(*                                                                         *)
(* _memory_lock is held for the load and, separately, for the write: each  *)
(* is one step, and other threads run between the two.                     *)
(***************************************************************************)
\* one worker in "store" (calls one after the other), else all of them
ActiveWorkers == IF scenario = "store" THEN {"w1"} ELSE Workers

MemoryTexts == {"", "m1", "m2"}

Categories == {"task_result", "search"}

SaveScopes == {"t1", "global"}

\* the calls drawn: concurrent ones on one scope with one category and two
\* texts, those made one after the other on two scopes with one text
Drawn(text, category, session_id) ==
    IF scenario = "memory"
    THEN category = "task_result" /\ session_id = "t1"
    ELSE text # "m2"

\* the entries a scope held when the explored behaviour began
OldEntry == MemoryEntry("old", "general")

\* the save_memory calls on a scope that got past the blank test
SavesBegun(session_id) ==
    Cardinality({k \in 1..Len(inserted[session_id]) : inserted[session_id][k] # OldEntry})
    + Cardinality({w \in Workers : worker[w].pc = "loaded" /\ worker[w].session_id = session_id})

\* save_memory up to the end of `with _memory_lock: memories = _load_memories(...)`
save_memory_load(w, text, category, session_id) ==
    /\ w \in ActiveWorkers
    /\ Drawn(text, category, session_id)
    /\ worker[w].pc = "idle"
    /\ SavesBegun(session_id) < MaxSaves
    /\ worker' = [worker EXCEPT ![w] =
                    IF Blank(text) THEN IdleWorker
                    ELSE [pc |-> "loaded", session_id |-> session_id,
                          memories |-> _load_memories(session_id),
                          entry |-> MemoryEntry(text, category)]]
    /\ UNCHANGED <<registryVars, loopVars, historyVars, trackerVars, functionVars,
                   memories, inserted, rateVars>>

\* the rest of save_memory: append, cap, and the write of _save_memories
_save_memories(w) ==
    /\ worker[w].pc = "loaded"
    /\ memories' = [memories EXCEPT ![worker[w].session_id] =
                       AppendCapped(worker[w].memories, worker[w].entry)]
    /\ inserted' = [inserted EXCEPT ![worker[w].session_id] = Append(@, worker[w].entry)]
    /\ worker' = [worker EXCEPT ![w] = IdleWorker]
    /\ UNCHANGED <<registryVars, loopVars, historyVars, trackerVars, functionVars, rateVars>>

\* retrieve_memories: the load of the session's and the global list under
\* the lock; the scoring reads the loaded lists only
retrieve_memories(w, session_id) ==
    /\ w \in ActiveWorkers
    /\ Drawn("m1", "task_result", session_id)
    /\ worker[w].pc = "idle"
    /\ worker' = [worker EXCEPT ![w] =
                    [IdleWorker EXCEPT
                        !.session_id = session_id,
                        !.memories = _load_memories(session_id) \o
                                     (IF session_id # "global" THEN _load_memories("global")
                                      ELSE <<>>)]]
    /\ UNCHANGED <<registryVars, loopVars, historyVars, trackerVars, functionVars,
                   memories, inserted, rateVars>>

NextMemory ==
    \/ \E w \in Workers, text \in MemoryTexts, category \in Categories, s \in SaveScopes :
          save_memory_load(w, text, category, s)
    \/ \E w \in Workers : _save_memories(w)
    \/ \E w \in Workers, s \in SaveScopes : retrieve_memories(w, s)

\* a store whose scope t1 is empty or one entry below the cap
InitMemory ==
    /\ InitRegistry
    /\ InitRun
    /\ probe = NoProbe
    /\ result = NoProbe
    /\ \E n \in {0, MAX_MEMORIES - 1} :
          /\ memories = [s \in Scopes |-> IF s = "t1" THEN [k \in 1..n |-> OldEntry] ELSE <<>>]
          /\ inserted = memories
    /\ worker = [w \in Workers |-> IdleWorker]
    /\ InitRateLimiter

InitMemoryThreads ==
    /\ InitMemory
    /\ scenario = "memory"

\* concurrent memory calls of two worker threads
SpecMemory == InitMemoryThreads /\ [][NextMemory]_vars

InitStoreCalls ==
    /\ InitMemory
    /\ scenario = "store"

\* memory calls one after the other
SpecStore == InitStoreCalls /\ [][NextMemory]_vars

(***************************************************************************)
(* main.py: _check_api_rate_limit called by _call_api in worker threads    *)
(*                                                                         *)
(* The function takes no lock: a thread may be suspended between the       *)
(* filter and the slice assignment, between the assignment and the length  *)
(* test, and between the test and the append.                              *)
(***************************************************************************)
\* [t for t in _api_call_timestamps if now - t < API_RATE_WINDOW]
RECURSIVE Recent(_, _)
Recent(timestamps, at) ==
    IF timestamps = <<>> THEN <<>>
    ELSE IF at - Head(timestamps) < API_RATE_WINDOW
    THEN <<Head(timestamps)>> \o Recent(Tail(timestamps), at)
    ELSE Recent(Tail(timestamps), at)

\* len(_api_call_timestamps) >= API_RATE_LIMIT
LimitReached(timestamps) == Len(timestamps) >= API_RATE_LIMIT

CallsInFlight == Cardinality({w \in Workers : caller[w].pc # "idle"})

\* now = time.time() and the list comprehension
RateFilter(w) ==
    /\ w \in ActiveWorkers
    /\ caller[w].pc = "idle"
    /\ Len(admitted) + CallsInFlight < API_RATE_LIMIT + MaxCalls
    /\ caller' = [caller EXCEPT ![w] =
                    [pc |-> "filtered", now |-> now,
                     kept |-> Recent(_api_call_timestamps, now), result |-> "none"]]
    /\ UNCHANGED <<registryVars, loopVars, historyVars, trackerVars, functionVars,
                   memoryVars, _api_call_timestamps, now, admitted>>

\* _api_call_timestamps[:] = ...
RateAssign(w) ==
    /\ caller[w].pc = "filtered"
    /\ _api_call_timestamps' = caller[w].kept
    /\ caller' = [caller EXCEPT ![w].pc = "assigned", ![w].kept = <<>>]
    /\ UNCHANGED <<registryVars, loopVars, historyVars, trackerVars, functionVars,
                   memoryVars, now, admitted>>

\* the length test: return False, so that _call_api raises at once
RateTest(w) ==
    /\ caller[w].pc = "assigned"
    /\ caller' = [caller EXCEPT ![w] =
                    IF LimitReached(_api_call_timestamps)
                    THEN [@ EXCEPT !.pc = "idle", !.result = "rejected"]
                    ELSE [@ EXCEPT !.pc = "admit"]]
    /\ UNCHANGED <<registryVars, loopVars, historyVars, trackerVars, functionVars,
                   memoryVars, _api_call_timestamps, now, admitted>>

\* _api_call_timestamps.append(now); return True
RateAppend(w) ==
    /\ caller[w].pc = "admit"
    /\ _api_call_timestamps' = Append(_api_call_timestamps, caller[w].now)
    /\ admitted' = Append(admitted, caller[w].now)
    /\ caller' = [caller EXCEPT ![w].pc = "idle", ![w].result = "admitted"]
    /\ UNCHANGED <<registryVars, loopVars, historyVars, trackerVars, functionVars,
                   memoryVars, now>>

\* time passes: half a window
Tick ==
    /\ now < MaxTicks * (API_RATE_WINDOW \div 2)
    /\ now' = now + (API_RATE_WINDOW \div 2)
    /\ UNCHANGED <<registryVars, loopVars, historyVars, trackerVars, functionVars,
                   memoryVars, _api_call_timestamps, caller, admitted>>

NextRate ==
    \/ \E w \in Workers : RateFilter(w)
    \/ \E w \in Workers : RateAssign(w)
    \/ \E w \in Workers : RateTest(w)
    \/ \E w \in Workers : RateAppend(w)
    \/ Tick

\* API_RATE_LIMIT - 1 calls have been admitted at time 0
InitRate ==
    /\ InitRegistry
    /\ InitRun
    /\ InitMemoryStore
    /\ probe = NoProbe
    /\ result = NoProbe
    /\ now = 0
    /\ caller = [w \in Workers |-> IdleCaller]
    /\ _api_call_timestamps = [k \in 1..(API_RATE_LIMIT - 1) |-> 0]
    /\ admitted = _api_call_timestamps

InitRateThreads ==
    /\ InitRate
    /\ scenario = "rate"

\* generator calls of two worker threads
SpecRate == InitRateThreads /\ [][NextRate]_vars

(***************************************************************************)
(* Properties                                                              *)
(***************************************************************************)

\* C1: every run of the control loop ends after at most 20 iterations, and
\* when it has ended the task's status is one of completed, max_iterations,
\* error, disconnected (never still running or pending).
C1_RunEndsInTerminalStatus ==
    /\ i <= max_iterations
    /\ llm_calls <= max_iterations
    /\ (pc = "idle" /\ end_status # "none") => end_status \in TerminalStatuses

\* C2: once the status of a task is completed, max_iterations, error or
\* disconnected, no step changes it (the record can only leave the registry).
C2_TerminalStatusSticky ==
    [][\A t \in TaskIds :
          task[t].status \in TerminalStatuses => task'[t].status = task[t].status]_vars

\* C3: interpreting a response text (the JSON strategy, then
\* interpret_response) raises nothing and yields a ParsedAction whose action
\* is one of the four tool names.
C3_InterpretationTotal ==
    result.stage # "input" =>
        /\ result.interp.raised = "none"
        /\ result.interp.parsed.action \in ToolNames

\* C4: whenever the response text contains a completion phrase, the
\* interpreted action is finish, whatever else the text contains.
C4_FinishPhraseFirst ==
    (result.stage # "input" /\ HasFinishPhrase(probe.text)) =>
        result.interp.parsed.action = "finish"

\* C5: after an iteration whose interpreted action is finish, the run makes
\* no further call_llm call and no execute_tool call.
C5_FinishEndsRun ==
    [][finished => \/ (llm_calls' = llm_calls /\ tool_calls' = tool_calls)
                   \/ ~finished']_vars

C5_Witness ==
    finished /\ pc = "idle" /\ end_status = "completed"

\* C6: the attempt number of a self_correction event equals the number of
\* consecutive failing terminal iterations with that identical signature.
C6_AttemptIsStreak ==
    signal # "none" => attempt = streak

C8_GiveUpOnlyAfterFullBudget ==
    signal = "giveup" => streak > 3

\* C9: for every ParsedAction the interpreter produces, execute_tool returns
\* a textual observation and raises nothing.
C9_DispatchNeverRaises ==
    result.stage = "dispatched" =>
        /\ result.tool.raised = "none"
        /\ result.tool.returns = "text"

\* C10: the file a file_editor action reads, writes or appends to lies inside
\* the workspace of the task that dispatched the action.
C10_FileEffectsConfined ==
    (result.stage = "dispatched" /\ result.tool.file.op # "none") =>
        Inside(result.tool.file.target, get_task_workspace(probe.task_id))

\* C11: once all concurrent save_memory calls on a scope have returned,
\* every saved entry that the cap does not evict is in the stored list.
C11_NoLostUpdate ==
    (\A w \in Workers : worker[w].pc = "idle") =>
        \A s \in Scopes :
            \A k \in 1..Len(LastN(inserted[s], MAX_MEMORIES)) :
                \E j \in 1..Len(memories[s]) :
                    memories[s][j] = LastN(inserted[s], MAX_MEMORIES)[k]

\* C16: after save_memory calls made one after the other, a scope stores at
\* most 100 entries, and they are the most recently saved entries in the
\* order of their saves; retrieval changes nothing.
C16_CappedFifo ==
    \A s \in Scopes :
        /\ Len(memories[s]) <= MAX_MEMORIES
        /\ memories[s] = LastN(inserted[s], MAX_MEMORIES)

C16_Witness ==
    /\ Len(inserted["t1"]) = MAX_MEMORIES + 2
    /\ memories["t1"][MAX_MEMORIES - 1] # OldEntry
    /\ worker["w1"].memories # <<>>
    /\ worker["w1"].pc = "idle"

\* C12: at most 10 registered tasks are running, and no client has more than
\* 3 active (pending or running) tasks in the registry.
C12_AdmissionCaps ==
    /\ Cardinality({t \in tasks : task[t].status = "running"}) <= MAX_CONCURRENT_TASKS
    /\ \A c \in Clients :
          Cardinality({t \in tasks : task[t].client = c
                                      /\ task[t].status \in {"pending", "running"}})
              <= MAX_TASKS_PER_IP

\* C13: no task record (and workspace) is removed while a control loop for
\* that task id is running: the task of a running loop is in the registry.
C13_NoReclaimUnderLoop ==
    pc # "idle" => task_id \in tasks

\* C14: every task whose control loop has ended is reclaimed: while it is in
\* the registry, its deferred cleanup is scheduled or its status lets the
\* expiry of a later start_task remove it.
C14_EndedTaskReclaimable ==
    (pc = "idle" /\ end_status # "none" /\ task_id \in tasks) =>
        \/ task_id \in cleanups
        \/ task[task_id].status # "running"

\* the admitted calls in the window of API_RATE_WINDOW seconds that ends at
\* the time at
AdmittedInWindow(at) ==
    Cardinality({k \in 1..Len(admitted) :
                    admitted[k] <= at /\ at - admitted[k] < API_RATE_WINDOW})

\* C15: across the worker threads at most 20 generator calls are admitted
\* in any window of 60 seconds, and a call is rejected only when 20 admitted
\* calls lie in the 60 seconds before it.
C15_SlidingWindowLimit ==
    /\ \A k \in 1..Len(admitted) : AdmittedInWindow(admitted[k]) <= API_RATE_LIMIT
    /\ \A w \in Workers :
          caller[w].result = "rejected" =>
              AdmittedInWindow(caller[w].now) >= API_RATE_LIMIT

\* C17: a call_llm whose generator call fails (rate-limit rejection or
\* exception such as a timeout) ends the run in the same iteration with a
\* final_answer event carrying str(e); until a new connection there is no
\* tool dispatch and no generator call.
C17_FailureEndsRun ==
    /\ [](call_error = "generator" =>
            /\ pc = "idle"
            /\ final_answer.sent
            /\ llm_calls = 0 /\ tool_calls = 0)
    /\ [][\A response \in LoopResponses :
            (response.fails /\ LoopCallLLM(response)) =>
                /\ pc' = "idle"
                /\ final_answer' = FinalAnswer(ExceptionText(response.error).text)]_vars

C17_Witness ==
    /\ call_error = "generator"
    /\ final_answer = FinalAnswer(ExceptionText("ReadTimeout").text)
    /\ pc = "idle"
    /\ i = 0
    /\ end_status = "running"

\* C18: a run in which an iteration interpreted finish has ended with the
\* status completed and with a task_result entry stored for the session of
\* the task.
C18_FinishCompletesAndSaves ==
    (finished /\ pc = "idle") =>
        /\ end_status = "completed"
        /\ \E k \in 1..Len(memories[task_id]) :
              memories[task_id][k].category = "task_result"

\* C19: the steps of history_list increase strictly, the entry appended by
\* the iteration with index i (0-based) has the step i + 1, and while the
\* coroutine runs a step of the loop leaves the list as it is or appends one
\* entry to it.
C19_HistoryAppendOnly ==
    /\ [](\A k \in 1..Len(history_list) :
            /\ history_list[k].step = k
            /\ k > 1 => history_list[k - 1].step < history_list[k].step)
    /\ [](pc = "llm" => Len(history_list) = i)
    /\ [][(pc # "idle" /\ pc' # "idle") =>
            \/ history_list' = history_list
            \/ /\ Len(history_list') = Len(history_list) + 1
               /\ SubSeq(history_list', 1, Len(history_list)) = history_list
               /\ history_list'[Len(history_list')].step = i + 1
               /\ i' = i + 1]_vars

C19_Witness ==
    /\ pc = "tool"
    /\ i = 3
    /\ Len(history_list) = 3
    /\ history_list[3].step = 3

\* C20: at the top of iteration i the run has made i generator calls and i
\* dispatches, before the dispatch i + 1 calls and i dispatches of a
\* non-finish action, and every call_llm that interprets a non-finish action
\* hands that action to execute_tool.
C20_OneDispatchPerIteration ==
    /\ [](pc = "llm" => llm_calls = i /\ tool_calls = i)
    /\ [](pc = "tool" => /\ llm_calls = i + 1
                        /\ tool_calls = i
                        /\ parsed # None
                        /\ parsed.action # "finish")
    /\ [][\A response \in LoopResponses :
            LET r == call_llm(response, task[task_id].prompt, i + 1,
                              get_task_workspace(task_id))
            IN (LoopCallLLM(response) /\ r.parsed # None /\ r.parsed.action # "finish")
                  => (pc' = "tool" /\ parsed' = r.parsed)]_vars

\* C21: for a canonical tool and a mapping whose keys are all parameters of
\* the tool, _normalize_args returns the mapping it was given; for every
\* tool name and mapping, normalizing the result again returns the result.
C21_NormalizeIdempotent ==
    /\ (result.stage \in {"once", "again"} /\ probe.action \in ToolNames
          /\ Keys(probe.action_input) \subseteq ToolParams(probe.action))
            => result.once = probe.action_input
    /\ result.stage = "again" => result.again = result.once

C21_Witness ==
    /\ result.stage = "again"
    /\ probe.action = "terminal"
    /\ probe.action_input = <<[k |-> "command", v |-> <<"ls">>], [k |-> "cwd", v |-> <<"make">>]>>
    /\ result.again = probe.action_input

\* C22: the Thought / Action / Action Input text naming file_editor, with
\* the Action Input {action: write, path: a.py, content: print(1)} followed
\* by a trailing comma, is interpreted as a file_editor action with those
\* arguments.
C22_ReActFormatInterpreted ==
    (result.stage # "input" /\ probe.fn = "call_llm" /\ probe.text = ReActWriteText) =>
        /\ result.interp.raised = "none"
        /\ result.interp.parsed.action = "file_editor"
        /\ result.interp.parsed.action_input =
              JDict(<<[k |-> "action", v |-> <<"write">>],
                      [k |-> "path", v |-> <<"a.py">>],
                      [k |-> "content", v |-> <<"print(1)">>]>>)

\* C23: of a fenced JSON action object whose action.name is a canonical tool
\* name in some letter case the interpretation is that tool with action.args
\* as arguments; with a name that resolves to no canonical tool the JSON
\* strategy yields nothing and the interpretation is the one of
\* interpret_response.
C23_FencedJsonAction ==
    (result.stage # "input" /\ probe.fn = "call_llm" /\ probe.text \in FencedJsonTexts) =>
        LET action_data == probe.text.json.data.action
            canonical == action_data.name.t = "str" /\ Len(action_data.name.s) = 1
                         /\ lower(action_data.name.s[1]) \in ToolNames
            resolves == action_data.name.t = "str"
                        /\ ResolveToolName(action_data.name.s) \in ToolNames
        IN /\ canonical =>
                /\ result.interp.raised = "none"
                /\ result.interp.parsed.action = lower(action_data.name.s[1])
                /\ action_data.args.t # "absent" =>
                        result.interp.parsed.action_input = action_data.args
           /\ ~resolves =>
                result.interp = interpret_response(probe.text, probe.user_prompt, probe.step,
                                                   get_task_workspace(probe.task_id))

\* the response is one fenced python block (no JSON object, no quoted path in
\* front of the block), interpreted on step 1
SinglePythonBlock ==
    /\ result.stage # "input"
    /\ probe.fn = "call_llm"
    /\ probe.step = 1
    /\ probe.text.json.kind = "none"
    /\ Len(probe.text.blocks) = 1
    /\ probe.text.blocks[1].lang = "python"
    /\ probe.text.blocks[1].quoted = <<>>

\* the interpretation is a file_editor write of the block body to main.py in
\* the workspace of the task
WritesMainPy ==
    /\ result.interp.raised = "none"
    /\ result.interp.parsed.action = "file_editor"
    /\ result.interp.parsed.action_input =
          JDict(<<[k |-> "action", v |-> <<"write">>],
                  [k |-> "path", v |-> join(get_task_workspace(probe.task_id), <<"main.py">>)],
                  [k |-> "content", v |-> probe.text.blocks[1].lines]>>)

\* C24 (as stated): on step 1 a response that is a single fenced python block
\* is interpreted as a file_editor write of the block body to main.py in the
\* workspace.
C24_PythonBlockWritten == SinglePythonBlock => WritesMainPy

\* C24 (amended): ... provided the text, block body included, contains no
\* completion phrase.
C24_PythonBlockWrittenUnlessFinish ==
    (SinglePythonBlock /\ ~HasFinishPhrase(probe.text)) => WritesMainPy

C24_Witness ==
    /\ SinglePythonBlock
    /\ probe.text.kw = <<"done", "task">>
    /\ probe.text.blocks[1].lines = <<"print(1)">>
    /\ WritesMainPy

\* the lines of the serialized history that consist of a step header
StepHeaders(lines) ==
    {n \in DOMAIN lines : \E k \in 1..(MaxSteps + 2) : lines[n] = <<StepLabel(k)>>}

\* C25: the number of 'Step N:' lines of history_str is the number of
\* iterations that appended to the history.
C25_StepCountRoundTrip ==
    probe.fn = "history_str" =>
        Cardinality(StepHeaders(JoinLines(result.history_lines))) = result.i

\* C26: an iteration whose observation has no error marker, or whose action
\* is not terminal, leaves the loop with no stored signature and with the
\* retry counter it had; the retry counter changes only in iterations of the
\* terminal tool whose observation has an error marker.
C26_OnlyTerminalErrorsCount ==
    [][\A has_error \in BOOLEAN :
         (LoopExecuteTool(has_error) /\ pc' = "llm") =>
            /\ ~(has_error /\ parsed.action = "terminal") =>
                    (last_failed_command' = JAbsent /\ retry_count' = retry_count)
            /\ retry_count' # retry_count => (has_error /\ parsed.action = "terminal")]_vars

C26_Witness ==
    /\ pc = "llm"
    /\ i = 3
    /\ retry_count = 2
    /\ last_failed_command = JAbsent
    /\ signal = "none"
    /\ Len(memories[task_id]) = 1

\* C27: whenever execute_tool, given the workspace of the task, calls
\* terminal or file_editor (on the normal call or on the fallback after a
\* TypeError), the cwd argument of the call is that workspace, whatever cwd
\* the arguments of the action held.
C27_WorkspaceIsCwd ==
    (probe.fn = "execute_tool" /\ result.stage = "dispatched"
        /\ result.tool.call.tool \in {"terminal", "file_editor"}) =>
            /\ HasKey(result.tool.call.kwargs, "cwd")
            /\ Get(result.tool.call.kwargs, "cwd") = get_task_workspace(probe.task_id)
            /\ Cardinality({n \in DOMAIN result.tool.call.kwargs :
                               result.tool.call.kwargs[n].k = "cwd"}) = 1

\* the fallback call of terminal for arguments with a cwd and an unknown key
C27_Witness ==
    /\ probe.fn = "execute_tool"
    /\ result.stage = "dispatched"
    /\ probe.action = "terminal"
    /\ probe.action_input = <<[k |-> "cwd", v |-> <<"make">>], [k |-> "x", v |-> <<"ls">>]>>
    /\ result.tool.call.tool = "terminal"
    /\ result.tool.call.kwargs =
          <<[k |-> "command", v |-> <<"ls">>],
            [k |-> "cwd", v |-> get_task_workspace("t1")]>>

\* C28: once a run has sent its final_answer event the coroutine is over and
\* no event was sent after it, and the event stays the only one of its run:
\* it changes only when a new connection starts the next run.
C28_FinalAnswerIsLast ==
    /\ [](final_answer.sent => (pc = "idle" /\ final_answer.later = "none"))
    /\ [][(final_answer.sent /\ final_answer' # final_answer) =>
            (pc = "idle" /\ pc' = "llm" /\ final_answer' = NoAnswer)]_vars

====
